---- MODULE Spec2Model ----
(***************************************************************************)
(* Model of the terminal chat client of src/main.py (class OllamaChat):    *)
(* the interactive loop, the command dispatch, one chat turn               *)
(* (send_message / _stream_response) and the conversation log              *)
(* self.messages.                                                          *)
(*                                                                         *)
(* Text is a sequence of one-character strings, so that strip(), lower()   *)
(* and the concatenation of streamed chunks are computed, not assumed.     *)
(***************************************************************************)
EXTENDS Integers, Sequences, FiniteSets

VARIABLES
    model,          \* self.model
    system_prompt,  \* self.system_prompt
    messages,       \* self.messages
    pc,             \* where the session is: "input", "post", "stream", "ended", "crashed"
    user_input,     \* start_interactive_session: the last stripped line read
    pre,            \* self.messages as it was when the last input line was read
    wire,           \* lines of the open response that iter_lines has not yielded yet
    lines_read,     \* lines that iter_lines has yielded in the current/last turn
    full_response,  \* _stream_response: the accumulator
    sink,           \* the chunks handed to print(chunk, end="", flush=True), in order
    conn,           \* the response of requests.post: "none", "open", "closed"
    exc,            \* the last exception raised since the last input line was read
    ret,            \* the value send_message returned
    rendered,       \* what the last !history printed, one entry per message
    payload         \* send_message: the request body handed to requests.post

vars == <<model, system_prompt, messages, pc, user_input, pre, wire, lines_read,
          full_response, sink, conn, exc, ret, rendered, payload>>

(***************************************************************************)
(* Bounds of the model.                                                    *)
(***************************************************************************)
MaxMessages == 5    \* a chat turn starts only while it fits in this many messages
MaxLines == 2       \* a response carries at most this many lines

(***************************************************************************)
(* Text.                                                                   *)
(***************************************************************************)
NL == "\n"
SP == " "

UpperLetters == <<"A", "B", "C", "D", "E", "F", "G", "H", "I", "J", "K", "L", "M",
                  "N", "O", "P", "Q", "R", "S", "T", "U", "V", "W", "X", "Y", "Z">>

LowerLetters == <<"a", "b", "c", "d", "e", "f", "g", "h", "i", "j", "k", "l", "m",
                  "n", "o", "p", "q", "r", "s", "t", "u", "v", "w", "x", "y", "z">>

LowerChar(c) ==
    IF \E i \in DOMAIN UpperLetters : UpperLetters[i] = c
    THEN LowerLetters[CHOOSE i \in DOMAIN UpperLetters : UpperLetters[i] = c]
    ELSE c

\* str.lower()
Lower(s) == [i \in DOMAIN s |-> LowerChar(s[i])]

IsSpace(c) == c \in {SP, NL, "\t"}

RECURSIVE LStrip(_)
LStrip(s) == IF s # <<>> /\ IsSpace(Head(s)) THEN LStrip(Tail(s)) ELSE s

RECURSIVE RStrip(_)
RStrip(s) ==
    IF s # <<>> /\ IsSpace(s[Len(s)]) THEN RStrip(SubSeq(s, 1, Len(s) - 1)) ELSE s

\* str.strip()
Strip(s) == RStrip(LStrip(s))

\* ' '.join(text.split('\n')): every newline becomes one space
CollapseNewlines(text) == [i \in DOMAIN text |-> IF text[i] = NL THEN SP ELSE text[i]]

(***************************************************************************)
(* The conversation.                                                       *)
(***************************************************************************)
Msg(role, content) == [role |-> role, content |-> content]

\* a reset that forgets the system message: self.messages = []
ResetMessagesEmpty(prompt) == <<>>

\* self.messages = [{"role": "system", "content": self.system_prompt}]
ResetMessages(prompt) == <<Msg("system", prompt)>>

\* a request that starts over: only the system message is kept before the new
\* user message
AppendUserFresh(msgs, text) == <<msgs[1], Msg("user", text)>>

\* the user message appended under the wrong role
AppendUserAsSystem(msgs, text) == Append(msgs, Msg("system", text))

\* self.messages.append({"role": "user", "content": user_message})
AppendUser(msgs, text) == Append(msgs, Msg("user", text))

\* the assistant message inserted before the last message instead of after it
CommitAssistantBeforeUser(msgs, acc) ==
    SubSeq(msgs, 1, Len(msgs) - 1) \o <<Msg("assistant", acc), msgs[Len(msgs)]>>

\* the reply committed twice: an append inside the loop and one after it
CommitAssistantTwice(msgs, acc) ==
    msgs \o <<Msg("assistant", acc), Msg("assistant", acc)>>

\* an empty reply is not committed: "if full_response:" before the append
CommitAssistantIfNonEmpty(msgs, acc) ==
    IF acc = <<>> THEN msgs ELSE Append(msgs, Msg("assistant", acc))

\* self.messages.append({"role": "assistant", "content": full_response})
CommitAssistant(msgs, acc) == Append(msgs, Msg("assistant", acc))

\* self.messages.pop()
Pop(msgs) == SubSeq(msgs, 1, Len(msgs) - 1)

(***************************************************************************)
(* What the terminal and the endpoint can deliver.                         *)
(***************************************************************************)
EXIT == <<"!", "e", "x", "i", "t">>
HISTORY == <<"!", "h", "i", "s", "t", "o", "r", "y">>
CLEAR == <<"!", "c", "l", "e", "a", "r">>

\* lines that input() can return
RawInputs ==
    { <<>>, <<SP>>, EXIT, HISTORY, CLEAR,
      <<SP, "!", "c", "l", "e", "a", "r", SP>>,
      <<"!", "C", "L", "E", "A", "R">>,
      <<"!", "E", "x", "i", "t">>,
      <<"h", "i">>, <<SP, "h", "i">> }

\* the --model argument (line 136: its default)
Models == { <<"g", "e", "m", "m", "a", "3">> }

\* contents of the system prompt file
PromptFiles == { <<"b", "e">>, <<"b", NL, "e">> }

\* One line of the response body.  kind: "empty" (a blank keep-alive line),
\* "badjson" (json.loads raises JSONDecodeError), "badutf8" (bytes that are not
\* UTF-8: json.loads raises UnicodeDecodeError), "frame" (a JSON object).
\* message: "absent" (no "message" key), "nocontent" (a message object without
\* "content"), "content", "null" (the value of "message" is null).
\* done: "absent", "false", "true".
Line(kind, message, content, done) ==
    [kind |-> kind, message |-> message, content |-> content, done |-> done]

Frame(message, content, done) == Line("frame", message, content, done)

Lines ==
    { Line("empty", "absent", <<>>, "absent"),
      Line("badjson", "absent", <<>>, "absent"),
      Line("badutf8", "absent", <<>>, "absent"),
      Frame("content", <<"a">>, "absent"),
      Frame("content", <<>>, "false"),
      Frame("nocontent", <<>>, "false"),
      Frame("null", <<>>, "absent"),
      Frame("absent", <<>>, "true"),
      Frame("content", <<"b">>, "true") }

RECURSIVE SeqsUpTo(_, _)
SeqsUpTo(S, n) ==
    IF n = 0 THEN { <<>> }
    ELSE LET shorter == SeqsUpTo(S, n - 1)
         IN shorter \cup { Append(s, x) : s \in shorter, x \in S }

\* response bodies the endpoint can send
Streams == SeqsUpTo(Lines, MaxLines)

(***************************************************************************)
(* The request body and the transcript printed by !history.                *)
(***************************************************************************)
NoPayload == [model |-> <<>>, messages |-> <<>>, stream |-> FALSE]

\* lines 41-45: payload["messages"] is self.messages itself
Payload(name, msgs) == [model |-> name, messages |-> msgs, stream |-> TRUE]

\* self.role_display (lines 30-34)
RoleDisplay(role) ==
    CASE role = "system" -> "[System]"
      [] role = "user" -> "[You]"
      [] role = "assistant" -> "[Assistant]"

\* a transcript printed last message first
RenderHistoryReversed(msgs) ==
    [i \in DOMAIN msgs |->
        [label |-> RoleDisplay(msgs[Len(msgs) + 1 - i].role),
         content |-> msgs[Len(msgs) + 1 - i].content]]

\* lines 115-119: one printed entry per message, in list order
RenderHistory(msgs) ==
    [i \in DOMAIN msgs |->
        [label |-> RoleDisplay(msgs[i].role), content |-> msgs[i].content]]

(***************************************************************************)
(* Return values of send_message.                                          *)
(***************************************************************************)
NoReturn == [kind |-> "none", text |-> <<>>]
\* return full_response
Returned(acc) == [kind |-> "full_response", text |-> acc]
\* return error_msg  (line 84: "stream", line 55: "send")
ErrorMsg(where) == [kind |-> where, text |-> <<>>]

(***************************************************************************)
(* Exceptions.  The except clauses of _stream_response (line 81) and of    *)
(* send_message (line 50) are both "except Exception"; the session loop    *)
(* (line 107) catches KeyboardInterrupt only.                              *)
(***************************************************************************)
Exceptions ==
    { "ConnectionError", "HTTPError", "ChunkedEncodingError",
      "UnicodeDecodeError", "TypeError", "KeyboardInterrupt" }

\* except clauses that name one exception class: except requests.ConnectionError
IsExceptionNarrow(e) == e = "ConnectionError"

\* isinstance(e, Exception): KeyboardInterrupt derives from BaseException only
IsException(e) == e # "KeyboardInterrupt"

\* line 81: except Exception
CaughtInStreamResponse(e) == IsException(e)

\* line 50: except Exception
CaughtInSendMessage(e) == IsException(e)

\* line 107: except KeyboardInterrupt
CaughtInSession(e) == e = "KeyboardInterrupt"

\* a response that is never closed: no with statement around requests.post
WithExitLeak(c) == c

\* line 62, "with requests.post(...) as response": leaving the block, by any
\* path, closes the response
WithExit(c) == IF c = "open" THEN "closed" ELSE c

\* An exception e leaves the try block of _stream_response (line 61) while
\* self.messages is msgs; c is the state of the connection once the with
\* statement has been left.  The handlers run innermost first.
Raise(e, msgs, c) ==
    /\ exc' = e
    /\ conn' = c
    /\ IF CaughtInStreamResponse(e)
       THEN \* lines 82-84: print and return error_msg; send_message returns it
            /\ messages' = msgs
            /\ ret' = ErrorMsg("stream")
            /\ pc' = "input"
       ELSE IF CaughtInSendMessage(e)
       THEN \* lines 51-55: print, pop the last message, return error_msg
            /\ messages' = Pop(msgs)
            /\ ret' = ErrorMsg("send")
            /\ pc' = "input"
       ELSE \* out of parse_user_input, into start_interactive_session
            /\ messages' = msgs
            /\ ret' = NoReturn
            /\ pc' = IF CaughtInSession(e) THEN "ended" ELSE "crashed"

(***************************************************************************)
(* Initial state: OllamaChat.__init__ has run and the session is about to  *)
(* read its first line.                                                    *)
(***************************************************************************)
Init ==
    /\ model \in Models
    /\ rendered = <<>>
    /\ payload = NoPayload
    /\ system_prompt \in { CollapseNewlines(f) : f \in PromptFiles }
    /\ messages = ResetMessages(system_prompt)
    /\ pc = "input"
    /\ user_input = <<>>
    /\ pre = messages
    /\ wire = <<>>
    /\ lines_read = <<>>
    /\ full_response = <<>>
    /\ sink = <<>>
    /\ conn = "none"
    /\ exc = "none"
    /\ ret = NoReturn

\* the locals of a chat turn, when no turn has run since the last command
NoTurn ==
    /\ pre' = messages
    /\ wire' = <<>>
    /\ lines_read' = <<>>
    /\ full_response' = <<>>
    /\ sink' = <<>>
    /\ conn' = "none"
    /\ exc' = "none"
    /\ ret' = NoReturn

\* an exit test that ignores letter case, like the clear test of line 121
IsExitAnyCase(ui) == Lower(ui) = EXIT

\* parse_user_input decides by these tests, in this order (lines 111, 114, 121)
IsExit(ui) == ui = EXIT
IsHistory(ui) == ui = HISTORY
IsClear(ui) == Lower(ui) = CLEAR
IsChat(ui) == ui # <<>> /\ ~IsExit(ui) /\ ~IsHistory(ui) /\ ~IsClear(ui)

\* parse_user_input(user_input), up to the request of send_message
ParseUserInput(ui) ==
    IF IsExit(ui)
    THEN /\ pc' = "ended"
         /\ messages' = messages
         /\ rendered' = <<>>
         /\ payload' = NoPayload
         /\ NoTurn
    ELSE IF IsHistory(ui)
    THEN /\ pc' = "input"
         /\ messages' = messages
         /\ rendered' = RenderHistory(messages)
         /\ payload' = NoPayload
         /\ NoTurn
    ELSE IF IsClear(ui)
    THEN /\ pc' = "input"
         /\ messages' = ResetMessages(system_prompt)
         /\ rendered' = <<>>
         /\ payload' = NoPayload
         /\ NoTurn
    ELSE \* send_message, lines 38-45: the user message is appended first
         /\ Len(messages) + 2 <= MaxMessages
         /\ pc' = "post"
         /\ pre' = messages
         /\ messages' = AppendUser(messages, ui)
         /\ payload' = Payload(model, AppendUser(messages, ui))
         /\ rendered' = <<>>
         /\ wire' = <<>>
         /\ lines_read' = <<>>
         /\ full_response' = <<>>
         /\ sink' = <<>>
         /\ conn' = "none"
         /\ exc' = "none"
         /\ ret' = NoReturn

\* start_interactive_session, lines 100-106: one pass of the loop
ReadInput ==
    /\ pc = "input"
    /\ \E raw \in RawInputs :
        LET ui == Strip(raw) IN
        /\ user_input' = ui
        /\ IF ui = <<>>
           THEN \* if not user_input: continue
                /\ pc' = "input"
                /\ messages' = messages
                /\ rendered' = <<>>
                /\ payload' = NoPayload
                /\ NoTurn
           ELSE ParseUserInput(ui)
    /\ UNCHANGED <<model, system_prompt>>

\* requests.post cannot establish the connection (line 62)
PostFails ==
    /\ pc = "post"
    /\ Raise("ConnectionError", messages, "none")
    /\ UNCHANGED <<model, rendered, payload, system_prompt, user_input, pre, wire, lines_read, full_response, sink>>

\* the response has a non-success status: raise_for_status raises (line 63)
\* and the with statement closes the response
PostBadStatus ==
    /\ pc = "post"
    /\ Raise("HTTPError", messages, WithExit("open"))
    /\ UNCHANGED <<model, rendered, payload, system_prompt, user_input, pre, wire, lines_read, full_response, sink>>

\* the response has a success status; its body is still to be read
PostOk ==
    /\ pc = "post"
    /\ \E body \in Streams : wire' = body
    /\ conn' = "open"
    /\ pc' = "stream"
    /\ UNCHANGED <<model, rendered, payload, system_prompt, messages, user_input, pre, lines_read,
                   full_response, sink, exc, ret>>

\* json.loads(line): "value", or the exception it raises
JsonLoads(line) ==
    CASE line.kind = "badjson" -> "JSONDecodeError"
      [] line.kind = "badutf8" -> "UnicodeDecodeError"
      [] OTHER -> "value"

\* line 68 on a decoded frame: "content" in None raises TypeError
FrameError(line) ==
    IF line.kind = "frame" /\ line.message = "null" THEN "TypeError" ELSE "none"

\* line 68: "message" in chunk_data and "content" in chunk_data["message"]
HasContent(line) == line.kind = "frame" /\ line.message = "content"

\* a loop without the break of line 73
IsDoneNever(line) == FALSE

\* line 72: chunk_data.get("done", False)
IsDone(line) == line.kind = "frame" /\ line.done = "true"

\* line 71: full_response += chunk
Accumulate(acc, line) == IF HasContent(line) THEN acc \o line.content ELSE acc

\* a sink that is handed non-empty chunks only: "if chunk:" before the print
ForwardNonEmpty(snk, line) ==
    IF HasContent(line) /\ line.content # <<>> THEN Append(snk, line.content) ELSE snk

\* line 70: print(chunk, end="", flush=True)
Forward(snk, line) == IF HasContent(line) THEN Append(snk, line.content) ELSE snk

\* lines 78-79: the loop is over; commit and return
Commit(acc) ==
    /\ messages' = CommitAssistant(messages, acc)
    /\ ret' = Returned(acc)
    /\ conn' = WithExit(conn)
    /\ exc' = "none"
    /\ pc' = "input"

\* one pass of "for line in response.iter_lines()" (lines 64-76)
NextLine ==
    /\ pc = "stream"
    /\ wire # <<>>
    /\ LET line == Head(wire) IN
        /\ wire' = Tail(wire)
        /\ lines_read' = Append(lines_read, line)
        /\ IF line.kind = "empty"
           THEN \* if line: is false
                UNCHANGED <<messages, pc, full_response, sink, conn, exc, ret>>
           ELSE IF JsonLoads(line) = "JSONDecodeError"
           THEN \* except json.JSONDecodeError: continue
                UNCHANGED <<messages, pc, full_response, sink, conn, exc, ret>>
           ELSE IF JsonLoads(line) # "value"
           THEN \* any other exception leaves the loop and the with statement
                /\ Raise(JsonLoads(line), messages, WithExit(conn))
                /\ UNCHANGED <<full_response, sink>>
           ELSE IF FrameError(line) # "none"
           THEN \* raised in the loop body, outside the inner try's except clause
                /\ Raise(FrameError(line), messages, WithExit(conn))
                /\ UNCHANGED <<full_response, sink>>
           ELSE /\ sink' = Forward(sink, line)
                /\ full_response' = Accumulate(full_response, line)
                /\ IF IsDone(line)
                   THEN Commit(Accumulate(full_response, line))
                   ELSE UNCHANGED <<messages, pc, conn, exc, ret>>
    /\ UNCHANGED <<model, rendered, payload, system_prompt, user_input, pre>>

\* iter_lines is exhausted: the remote end has closed the body
StreamClosed ==
    /\ pc = "stream"
    /\ wire = <<>>
    /\ Commit(full_response)
    /\ UNCHANGED <<model, rendered, payload, system_prompt, user_input, pre, wire, lines_read, full_response, sink>>

\* iter_lines raises: the connection drops while the body is read
ReadError ==
    /\ pc = "stream"
    /\ Raise("ChunkedEncodingError", messages, WithExit(conn))
    /\ UNCHANGED <<model, rendered, payload, system_prompt, user_input, pre, wire, lines_read, full_response, sink>>

\* Ctrl-C while input() blocks: KeyboardInterrupt, caught at line 107
InterruptInput ==
    /\ pc = "input"
    /\ exc' = "KeyboardInterrupt"
    /\ pc' = IF CaughtInSession("KeyboardInterrupt") THEN "ended" ELSE "crashed"
    /\ UNCHANGED <<model, rendered, payload, system_prompt, messages, user_input, pre, wire, lines_read,
                   full_response, sink, conn, ret>>

\* Ctrl-C while requests.post or iter_lines blocks
InterruptTurn ==
    /\ pc \in {"post", "stream"}
    /\ Raise("KeyboardInterrupt", messages, WithExit(conn))
    /\ UNCHANGED <<model, rendered, payload, system_prompt, user_input, pre, wire, lines_read, full_response, sink>>

Next ==
    \/ ReadInput
    \/ PostFails
    \/ PostBadStatus
    \/ PostOk
    \/ NextLine
    \/ StreamClosed
    \/ ReadError
    \/ InterruptInput
    \/ InterruptTurn

Spec == Init /\ [][Next]_vars

TypeOK ==
    /\ pc \in {"input", "post", "stream", "ended", "crashed"}
    /\ conn \in {"none", "open", "closed"}
    /\ exc \in Exceptions \cup {"none"}
    /\ Len(messages) <= MaxMessages

(***************************************************************************)
(* Properties.                                                             *)
(***************************************************************************)

\* send_message has returned and the session waits for the next line
TurnReturned == pc = "input" /\ ret.kind # "none"

\* the conversation a completed exchange leaves: the conversation before the
\* turn, the user message, the assistant message
Exchange(before, text, reply) == before \o <<Msg("user", text), Msg("assistant", reply)>>

\* C1: rollback on transport failure.  When a chat turn fails before any
\* stream content is received (no connection, or a non-success status), the
\* conversation after the call equals the conversation before the call.
C1_RollbackOnTransportFailure ==
    (TurnReturned /\ exc \in {"ConnectionError", "HTTPError"}) => messages = pre

\* C2: commit on success.  When the stream of a turn ends normally (done=true
\* seen, or the body closed by the remote end), the conversation is the one
\* before the call followed by the user message and then the assistant
\* message holding the accumulator, and the call returns that content.
C2_CommitOnSuccess ==
    (TurnReturned /\ exc = "none") =>
        /\ messages = Exchange(pre, user_input, full_response)
        /\ ret = Returned(full_response)

C2_Witness ==
    /\ TurnReturned
    /\ exc = "none"
    /\ Len(pre) >= 3
    /\ full_response = <<"a", "b">>

\* C3: partial commit on mid-stream failure.  When reading the open stream
\* fails, the turn still ends with the user message followed by an assistant
\* message holding the accumulator gathered so far.
C3_PartialCommitOnStreamError ==
    (TurnReturned /\ exc = "ChunkedEncodingError") =>
        messages = Exchange(pre, user_input, full_response)

\* the system message followed by complete (user, assistant) pairs
WellPaired(msgs) ==
    /\ Len(msgs) % 2 = 1
    /\ msgs[1].role = "system"
    /\ \A i \in 2..Len(msgs) :
        msgs[i].role = IF i % 2 = 0 THEN "user" ELSE "assistant"

\* C4: no user-only entries persist.  Whenever the session waits for the next
\* line, the conversation is the system message followed by complete
\* (user, assistant) pairs.
C4_NoUserOnlyEntries == pc = "input" => WellPaired(messages)

\* C5: system message invariant.  In every state the conversation is
\* non-empty, its first entry is the system message holding the prompt fixed
\* at initialization, and no other entry has role system; the prompt and the
\* first entry never change.
C5_SystemMessageInvariant ==
    /\ [](/\ messages # <<>>
          /\ messages[1] = Msg("system", system_prompt)
          /\ \A i \in 2..Len(messages) : messages[i].role # "system"
          /\ \E f \in PromptFiles : system_prompt = CollapseNewlines(f))
    /\ [][system_prompt' = system_prompt /\ Head(messages') = Head(messages)]_vars

C5_Witness ==
    /\ pc = "stream"
    /\ Len(messages) = 4
    /\ sink # <<>>
    /\ system_prompt = <<"b", SP, "e">>

\* C6: reset invariant.  Right after the reset command, whatever the
\* conversation was, the conversation is the single system message holding the
\* prompt given at initialization, and the session waits for the next line.
C6_ResetInvariant ==
    (IsClear(user_input) /\ exc = "none") =>
        /\ messages = <<Msg("system", system_prompt)>>
        /\ pc = "input"

C6_Witness ==
    /\ IsClear(user_input)
    /\ exc = "none"
    /\ Len(pre) >= 4
    /\ pre[Len(pre)].role = "user"

\* a line that is not valid JSON
Malformed(line) == line.kind \in {"badjson", "badutf8"}

\* a JSON object whose fields, where present, have the expected shape
WellFormed(line) ==
    line.kind = "frame" /\ line.message \in {"absent", "nocontent", "content"}

\* a body of blank lines, malformed lines and well-formed frames
Interleaved(ls) ==
    \A i \in DOMAIN ls : ls[i].kind = "empty" \/ Malformed(ls[i]) \/ WellFormed(ls[i])

\* a JSON object that carries a message.content string
CarriesContent(line) == line.kind = "frame" /\ line.message = "content"

\* the content fragments of the lines ls, in arrival order, up to and
\* including the first frame with done=true
RECURSIVE Fragments(_)
Fragments(ls) ==
    IF ls = <<>> THEN <<>>
    ELSE LET l == Head(ls)
             own == IF CarriesContent(l) THEN <<l.content>> ELSE <<>>
         IN IF l.kind = "frame" /\ l.done = "true"
            THEN own
            ELSE own \o Fragments(Tail(ls))

\* the concatenation of the texts of ts
RECURSIVE Concat(_)
Concat(ts) == IF ts = <<>> THEN <<>> ELSE Head(ts) \o Concat(Tail(ts))

\* C7: tolerant decode.  For a stream of malformed lines and well-formed
\* frames that is read without an I/O error, the accumulator committed and
\* returned is the concatenation, in arrival order, of the content of the
\* well-formed frames up to and including the first done=true frame.
C7_TolerantDecode ==
    (/\ TurnReturned
     /\ conn = "closed"
     /\ exc \notin {"HTTPError", "ChunkedEncodingError"}
     /\ Interleaved(lines_read)) =>
        /\ ret = Returned(Concat(Fragments(lines_read)))
        /\ messages = Exchange(pre, user_input, Concat(Fragments(lines_read)))

\* C7 restricted to the lines at which json.loads raises JSONDecodeError (the
\* one exception line 75 catches): for these the tolerant decode holds.
C7_JsonSyntaxErrorsTolerated ==
    (/\ TurnReturned
     /\ conn = "closed"
     /\ exc \notin {"HTTPError", "ChunkedEncodingError"}
     /\ Interleaved(lines_read)
     /\ \A i \in DOMAIN lines_read : lines_read[i].kind # "badutf8") =>
        /\ ret = Returned(Concat(Fragments(lines_read)))
        /\ messages = Exchange(pre, user_input, Concat(Fragments(lines_read)))

\* the fragments of ls that are not the empty string
NonEmpty(ts) == SelectSeq(ts, LAMBDA t : t # <<>>)

C9_EmptyStream ==
    (TurnReturned /\ conn = "closed" /\ exc = "none" /\ lines_read = <<>>) =>
        /\ messages = Exchange(pre, user_input, <<>>)
        /\ ret = Returned(<<>>)

C9_Witness ==
    /\ TurnReturned
    /\ conn = "closed"
    /\ exc = "none"
    /\ lines_read = <<>>
    /\ Len(messages) = 5

\* the exceptions of a failed turn: transport errors and stream errors
TurnErrors ==
    {"ConnectionError", "HTTPError", "ChunkedEncodingError", "UnicodeDecodeError", "TypeError"}

C11_ConnectionScoped ==
    /\ TurnReturned => conn = IF exc = "ConnectionError" THEN "none" ELSE "closed"
    /\ pc \in {"input", "ended", "crashed"} => conn # "open"
    /\ conn = "open" => pc = "stream"
    /\ pc = "post" => conn = "none"

C11_Witness ==
    /\ TurnReturned
    /\ exc = "ChunkedEncodingError"
    /\ conn = "closed"
    /\ wire # <<>>
    /\ lines_read # <<>>

\* a step that reads one line and dispatches it (Ctrl-C sets exc instead)
DispatchStep == pc = "input" /\ exc' = "none"

\* what the dispatch of a chat turn does: the user message is appended and
\* the request is about to be sent; nothing is reset, the session goes on
SentAsChatTurn ==
    /\ pc' = "post"
    /\ messages' = Append(messages, Msg("user", user_input'))

\* what the dispatch of a command does
HandledAsCommand ==
    /\ user_input' = EXIT => (pc' = "ended" /\ messages' = messages)
    /\ user_input' = HISTORY => (pc' = "input" /\ messages' = messages)
    /\ user_input' = CLEAR =>
        (pc' = "input" /\ messages' = <<Msg("system", system_prompt)>>)

\* C12 as stated: the inputs that are not chat turns are exactly the strings
\* !exit, !history and !clear; every other non-empty input, letter-case
\* variants included, is sent as a user chat turn.
C12_ExactCommandsOnly ==
    [][DispatchStep =>
        IF user_input' \in {EXIT, HISTORY, CLEAR} THEN HandledAsCommand
        ELSE IF user_input' = <<>> THEN (pc' = "input" /\ messages' = messages)
        ELSE SentAsChatTurn]_vars

\* C12, amended: the stripped inputs that are not chat turns are the exact
\* strings !exit and !history and every string whose lower-case form is
\* !clear (!CLEAR, !Clear, ... reset the conversation too); every other
\* non-empty input, such as !Exit or !HISTORY, is sent as a user chat turn
\* and neither resets the conversation nor ends the session.
C12_CommandDispatch ==
    [][DispatchStep =>
        IF user_input' \in {EXIT, HISTORY, CLEAR} THEN HandledAsCommand
        ELSE IF user_input' = <<>> THEN (pc' = "input" /\ messages' = messages)
        ELSE IF Lower(user_input') = CLEAR
        THEN (pc' = "input" /\ messages' = <<Msg("system", system_prompt)>>)
        ELSE SentAsChatTurn]_vars

C12_Witness ==
    /\ pc = "post"
    /\ user_input = <<"!", "E", "x", "i", "t">>
    /\ Len(messages) = 4

\* C13: history is read-only.  Right after the !history command the
\* transcript printed holds one entry per message of the conversation, in
\* conversation order, each with the label of its role and its content; the
\* conversation is what it was before the command and the session waits for
\* the next line.
C13_HistoryReadOnly ==
    (user_input = HISTORY /\ exc = "none") =>
        /\ pc = "input"
        /\ messages = pre
        /\ Len(rendered) = Len(pre)
        /\ \A i \in DOMAIN pre :
            /\ rendered[i].content = pre[i].content
            /\ rendered[i].label =
                (CASE pre[i].role = "system" -> "[System]"
                   [] pre[i].role = "user" -> "[You]"
                   [] pre[i].role = "assistant" -> "[Assistant]")

C13_Witness ==
    /\ user_input = HISTORY
    /\ exc = "none"
    /\ Len(rendered) = 4
    /\ rendered[3].label = "[You]"
    /\ rendered[4].label = "[Assistant]"

\* a frame with done=true is among the lines read
DoneSeen == \E i \in DOMAIN lines_read :
    lines_read[i].kind = "frame" /\ lines_read[i].done = "true"

\* the content fragments of all the lines ls, whatever their done flags
RECURSIVE AllFragments(_)
AllFragments(ls) ==
    IF ls = <<>> THEN <<>>
    ELSE (IF CarriesContent(Head(ls)) THEN <<Head(ls).content>> ELSE <<>>)
         \o AllFragments(Tail(ls))

AllValidJson(ls) == \A i \in DOMAIN ls : ls[i].kind \in {"empty", "frame"}

\* C15: wrong-shape frames do not abort the stream.  When every line read is
\* valid JSON, whatever its shape, and no I/O error occurs, the turn does not
\* end in error: a line without a message.content string contributes
\* nothing, and the assistant message is committed with the accumulator.
C15_WrongShapeTolerated ==
    (/\ TurnReturned
     /\ conn = "closed"
     /\ exc \notin {"HTTPError", "ChunkedEncodingError"}
     /\ AllValidJson(lines_read)) =>
        /\ exc = "none"
        /\ ret = Returned(Concat(Fragments(lines_read)))
        /\ messages = Exchange(pre, user_input, Concat(Fragments(lines_read)))

\* C15 restricted to frames whose fields are merely missing (no message, no
\* content, no done): for these the decode goes on and the turn is committed.
C15_MissingFieldsTolerated ==
    (/\ TurnReturned
     /\ conn = "closed"
     /\ exc \notin {"HTTPError", "ChunkedEncodingError"}
     /\ \A i \in DOMAIN lines_read :
            lines_read[i].kind = "empty" \/ WellFormed(lines_read[i])) =>
        /\ exc = "none"
        /\ ret = Returned(Concat(Fragments(lines_read)))
        /\ messages = Exchange(pre, user_input, Concat(Fragments(lines_read)))

\* the request of the current turn is about to be sent, or is being answered
InTurn == pc \in {"post", "stream"}

\* C16: request payload.  The request of every chat turn carries the
\* configured model name, stream=true and, as messages, the conversation as
\* it was before the turn followed by the new user message; that list is the
\* system message followed by complete (user, assistant) pairs and then the
\* new user message.
C16_RequestPayload ==
    InTurn =>
        /\ payload.model = model
        /\ payload.stream = TRUE
        /\ payload.messages = Append(pre, Msg("user", user_input))
        /\ WellPaired(pre)

\* C16 without its last clause: the payload is the model name, stream=true
\* and the conversation before the turn followed by the new user message.
C16_PayloadIsConversation ==
    InTurn =>
        /\ payload.model = model
        /\ payload.stream = TRUE
        /\ payload.messages = Append(pre, Msg("user", user_input))

\* s is a prefix of t
IsPrefix(s, t) == Len(s) <= Len(t) /\ SubSeq(t, 1, Len(s)) = s

\* C17: append-only between resets.  Unless the last command was the reset,
\* the conversation, during and after whatever that command did, extends the
\* conversation the session had when it read that command: every entry that
\* existed is still there, unchanged and at its place.  (pre is the
\* conversation at the previous wait for input, so the conversations seen at
\* successive waits form a chain of prefixes.)
C17_AppendOnly == Lower(user_input) # CLEAR => IsPrefix(pre, messages)

C17_Witness ==
    /\ TurnReturned
    /\ exc = "HTTPError"
    /\ Len(pre) = 3
    /\ pre[3].role = "assistant"
    /\ Len(messages) = 4

\* the number of assistant messages of msgs
Assistants(msgs) == Len(SelectSeq(msgs, LAMBDA m : m.role = "assistant"))

\* C18: in every state each assistant message comes right after a user
\* message; a turn adds at most one assistant message; and wherever the
\* except clause of send_message could take over (inside the request and the
\* read loop), the entry its pop() would remove is the user message appended
\* by the same call, leaving the conversation as it was before the call.
C18_AssistantFollowsUser ==
    /\ \A i \in DOMAIN messages :
        messages[i].role = "assistant" => (i > 1 /\ messages[i - 1].role = "user")
    /\ Lower(user_input) # CLEAR => Assistants(messages) <= Assistants(pre) + 1
    /\ InTurn =>
        /\ messages[Len(messages)] = Msg("user", user_input)
        /\ Pop(messages) = pre

\* the except clause of send_message (lines 50-55) is never reached: no call
\* returns its error text
C18_RollbackUnreached == ret.kind # "send"

C18_Witness ==
    /\ pc = "stream"
    /\ Len(messages) = 4
    /\ messages[3].role = "assistant"
    /\ lines_read # <<>>

====
